---- MODULE Spec2Model ----
(***************************************************************************)
(* Interrupt-to-delivery pipeline of src/src/main.c: the data-ready        *)
(* interrupt posts the semaphore bma400_ready, the worker thread           *)
(* thread_read_bma400 takes it, resumes the SPI bus, reads one sample,     *)
(* notifies the BLE peer and suspends the bus; main() brings the system    *)
(* up; the BLE stack calls connected() / disconnected().                   *)
(*                                                                         *)
(* Threads interleave at statement level: main (priority 0) blocks in      *)
(* k_usleep / SPI completion waits during start-up, the worker (priority   *)
(* 7) is preemptible, the BLE callbacks run in the stack's own thread and  *)
(* the interrupt handler runs in interrupt context.                        *)
(***************************************************************************)
EXTENDS Integers, Sequences, FiniteSets, TLC

(***************************************************************************)
(* Bounds of the model                                                     *)
(***************************************************************************)
\* number of data-ready interrupts that fire in one behaviour
MaxInts == 2
\* largest len argument handed to write_reg_spi
MaxWriteLen == 3
\* most references the application takes on one peer
MaxRefs == 2

(***************************************************************************)
(* Program constants                                                       *)
(***************************************************************************)
\* K_SEM_DEFINE(bma400_ready, 0, 1): initial count and limit
SemInitial_one == 0 + 1
SemInitial == 0
SemLimit_two == SemInitial + 2
SemLimit == 1
\* sizeof(accel_value)
PayloadLen == 6
\* a negative errno, the error value of the Zephyr calls (-EIO)
EIO == -5
\* BMA400_E_COM_FAIL of the sensor library
E_COM_FAIL == -2

NULL == "NULL"
\* the remote devices that may connect: one central
Peers == {"p1"}
\* the remote devices when the stack admits a second connection
BlePeers == {"p1", "p2"}

\* register contents the sensor can hold for (x, y, z)
SensorValues == {<<100, -50, 32760>>, <<-1, 256, -32768>>}
\* axis values of the signed 16-bit range used for the payload encoding
Int16Values == {-32768, -32760, -257, -50, -1, 0, 1, 100, 255, 256, 32760, 32767}

\* a sample as it sits in rx_buffer / acc_data: the register values and the
\* read cycle whose transceive fetched them (0: no sample was ever fetched)
NoSample == [seq |-> 0, v |-> <<0, 0, 0>>]
\* the caller's buffer of a register read before the read touches it
Unfilled == [seq |-> -1, v |-> <<0, 0, 0>>]

VARIABLES
    mainPc,        \* position of main()
    cfgStep,       \* index of the start-up library call main() is at
    workerPc,      \* position of thread_read_bma400
    bma400_ready,  \* count of the semaphore
    busActive,     \* power state of the spi1 device (TRUE: active)
    current_conn,  \* the stored peer reference, NULL when none
    refs,          \* references the application holds on each peer
    links,         \* peers whose connection is up in the BLE stack
    rx_buffer,     \* the global receive buffer
    acc_data,      \* the global sample
    accel_value,   \* the 6-byte characteristic value
    \* ---- history (observation only) ----
    nInts,         \* interrupts fired
    intsSinceDrain,\* interrupts fired since the last k_sem_take return
    nBursts,       \* groups of interrupts separated by k_sem_take returns
    nTake,         \* k_sem_take returns (cycles started)
    nAcquire,      \* worker calls of PM_DEVICE_ACTION_RESUME
    nRelease,      \* worker calls of PM_DEVICE_ACTION_SUSPEND
    xferErr,       \* error of this cycle's spi_transceive_dt (0: none yet / ok)
    readRet,       \* what read_reg_spi returned in this cycle
    readData,      \* what read_reg_spi left in its caller's buffer
    prevXferErr,   \* xferErr of the previous cycle
    connAtCheck,   \* current_conn as seen by the check of this cycle
    steps,         \* the calls the worker made in this cycle, in order
    notified,      \* the bt_gatt_notify calls made so far, in order
    lastWrite,     \* error and result of the latest write_reg_spi call
    cfgFailed,     \* a bus transfer of init_read_lp has failed
    resumeErr,     \* error of this cycle's RESUME transition (0: none)
    discInCycle    \* ConnectionState went to Disconnected in this cycle,
                   \* after k_sem_take returned and before the check

vars == <<mainPc, cfgStep, workerPc, bma400_ready, busActive, current_conn,
          refs, links, rx_buffer, acc_data, accel_value, nInts, intsSinceDrain,
          nBursts, nTake, nAcquire, nRelease, xferErr, readRet, readData,
          prevXferErr, connAtCheck, steps, notified, lastWrite, cfgFailed,
          resumeErr, discInCycle>>

(***************************************************************************)
(* Pure functions                                                          *)
(***************************************************************************)
\* the low seven bits only (mask 0x7F)
LowByte_7bit(x) == x % 128
\* x & 0xFF on the two's-complement int the int16_t is promoted to
LowByte(x) == x % 256
\* (x >> 8) & 0xFF (arithmetic or logical shift give the same bits 8..15)
HighByte(x) == (x \div 256) % 256

\* the two bytes of every axis in the other order
serialize_bigEndian(x, y, z) ==
    <<HighByte(x), LowByte(x), HighByte(y), LowByte(y), HighByte(z), LowByte(z)>>
\* lines 106-111: accel_value[0..5] (1-based here)
serialize(x, y, z) ==
    <<LowByte(x), HighByte(x), LowByte(y), HighByte(y), LowByte(z), HighByte(z)>>

\* line 104: if(!current_conn) return; where the worker goes after the test
send_check_always(conn) == "send_notify"
send_check_next(conn) == IF conn = NULL THEN "suspend" ELSE "send_notify"

\* a give that counts every post
k_sem_give_unbounded(count, limit) == count + 1
\* k_sem_give on a semaphore with the given limit
k_sem_give(count, limit) == IF count < limit THEN count + 1 ELSE count

\* spi_transceive_dt: what rx_buffer holds afterwards; a failed transfer
\* leaves the previous content in place
spi_transceive_dt(err, fresh, rxb) == IF err < 0 THEN rxb ELSE fresh

\* read_reg_spi, lines 217-251: the error is logged, the copy loop runs in
\* every case and the function returns 0
read_reg_spi(err, fresh, rxb, data) ==
    LET rx == spi_transceive_dt(err, fresh, rxb)
    IN  [rx_buffer |-> rx, data |-> rx, ret |-> 0]

\* the write path returning 0 whatever spi_write_dt reported
write_reg_spi_ignoresError(err) == 0
\* write_reg_spi, lines 253-276: what the function returns when spi_write_dt
\* returns err
write_reg_spi(err) == IF err < 0 THEN err ELSE 0

\* bma400_get_accel_data of the sensor library: the sample is stored only
\* when the interface read reported success
bma400_get_accel_data(ret, data, acc) ==
    IF ret = 0 THEN [rslt |-> 0, acc |-> data]
               ELSE [rslt |-> E_COM_FAIL, acc |-> acc]

\* the library calls main() makes between lines 396 and 401
ConfigSeq == <<"bma400_init", "get_sensor_conf", "set_sensor_conf",
               "set_power_mode", "enable_interrupt">>
\* the calls that fetch registers (through read_reg_spi); the others store
\* registers (through write_reg_spi)
ConfigReads == {"bma400_init", "get_sensor_conf"}

\* write_reg_spi, lines 264-269: the bytes spi_write_dt clocks out.  tx_buf
\* holds two bytes and the spi_buf is len + 1 bytes long, so for len > 1 the
\* transfer runs past tx_buf: `beyond' is what lies behind it on the stack
write_reg_spi_tx(reg_address, data, len, beyond) ==
    LET tx_buf == <<reg_address, data[1]>>
    IN  [i \in 1..(len + 1) |->
            IF i <= Len(tx_buf) THEN tx_buf[i] ELSE beyond[i - Len(tx_buf)]]

\* one call of write_reg_spi as main() or the library observes it: the
\* arguments, the frame on the bus, the error of spi_write_dt and the result
WriteCall(reg_address, data, len, beyond, err) ==
    [err |-> err, ret |-> write_reg_spi(err), made |-> TRUE,
     reg |-> reg_address, data |-> data, len |-> len,
     frame |-> write_reg_spi_tx(reg_address, data, len, beyond)]

\* the sensor library stores one register per call of the write function
\* (a register of the configuration block and its value)
LibraryWrite == [reg |-> 25, data |-> <<2>>, len |-> 1]
\* register addresses and bytes for calls of write_reg_spi on its own
WriteRegs == {25, 31}
WriteBytes == {1, 254}
\* what the stack can hold behind tx_buf
StackBytes == {0, 255}

\* no write_reg_spi call was made yet
NoWrite == [err |-> 0, ret |-> 0, made |-> FALSE,
            reg |-> 0, data |-> <<>>, len |-> 0, frame |-> <<>>]
\* the last register write of a start-up that went through
StartupWrite == WriteCall(LibraryWrite.reg, LibraryWrite.data,
                          LibraryWrite.len, <<>>, 0)

(***************************************************************************)
(* Initial state: after static initialisation, before main() runs.  The    *)
(* spi1 device is active after boot: main() talks to the sensor over it    *)
(* without a RESUME and suspends it at line 404.                           *)
(***************************************************************************)
Init ==
    /\ mainPc = "checks"
    /\ cfgStep = 1
    /\ workerPc = "idle"
    /\ bma400_ready = SemInitial
    /\ busActive = TRUE
    /\ current_conn = NULL
    /\ refs = [p \in Peers |-> 0]
    /\ links = {}
    /\ rx_buffer = NoSample
    /\ acc_data = NoSample
    /\ accel_value = <<0, 0, 0, 0, 0, 0>>
    /\ nInts = 0
    /\ intsSinceDrain = 0
    /\ nBursts = 0
    /\ nTake = 0
    /\ nAcquire = 0
    /\ nRelease = 0
    /\ xferErr = 0
    /\ readRet = 0
    /\ readData = Unfilled
    /\ prevXferErr = 0
    /\ connAtCheck = "unchecked"
    /\ steps = <<>>
    /\ notified = <<>>
    /\ lastWrite = NoWrite
    /\ cfgFailed = FALSE
    /\ resumeErr = 0
    /\ discInCycle = FALSE

cfgHist == <<lastWrite, cfgFailed>>
history == <<nInts, intsSinceDrain, nBursts, nTake, nAcquire, nRelease,
             xferErr, readRet, readData, prevXferErr, connAtCheck, steps,
             notified>>
workerHist == <<nTake, nAcquire, nRelease, xferErr, readRet, readData,
                prevXferErr,
                connAtCheck, steps, notified>>
intHist == <<nInts, intsSinceDrain, nBursts>>
bleVars == <<current_conn, refs, links>>
dataVars == <<rx_buffer, acc_data, accel_value>>

(***************************************************************************)
(* main(), lines 357-412                                                   *)
(***************************************************************************)
\* lines 362-384: spi_is_ready_dt, device_is_ready, gpio_pin_configure_dt,
\* bt_enable; main returns at the first one that fails
MainChecks ==
    /\ mainPc = "checks"
    /\ \E failed \in {"none", "spi", "port", "pin", "bt"} :
          mainPc' = IF failed = "none" THEN "irq_setup" ELSE "returned"
    /\ UNCHANGED <<cfgStep, workerPc, bma400_ready, busActive, bleVars,
                   dataVars, history,
                   cfgHist, resumeErr, discInCycle>>

\* lines 386-393: configure the pin interrupt and register bma_int_handler
MainIrqSetup ==
    /\ mainPc = "irq_setup"
    /\ mainPc' = "config"
    /\ UNCHANGED <<cfgStep, workerPc, bma400_ready, busActive, bleVars,
                   dataVars, history,
                   cfgHist, resumeErr, discInCycle>>

\* lines 396-401: bma400_init and init_read_lp, one library call per step;
\* each call goes over the bus through read_reg_spi or write_reg_spi and
\* its result is not looked at; the register reads land in rx_buffer.  A
\* transfer on a suspended bus fails.
MainConfigStep ==
    /\ mainPc = "config"
    /\ \E e \in {0, EIO} :
          LET err == IF busActive THEN e ELSE EIO
          IN  /\ IF ConfigSeq[cfgStep] \in ConfigReads
                 THEN /\ rx_buffer' = read_reg_spi(err, NoSample, rx_buffer,
                                                   Unfilled).rx_buffer
                      /\ lastWrite' = lastWrite
                 ELSE /\ rx_buffer' = rx_buffer
                      /\ lastWrite' = WriteCall(LibraryWrite.reg,
                                                LibraryWrite.data,
                                                LibraryWrite.len, <<>>, err)
              /\ cfgFailed' = (cfgFailed \/ (cfgStep >= 2 /\ err # 0))
    /\ IF cfgStep = Len(ConfigSeq)
       THEN mainPc' = "suspend" /\ cfgStep' = cfgStep
       ELSE mainPc' = mainPc /\ cfgStep' = cfgStep + 1
    /\ UNCHANGED <<workerPc, bma400_ready, busActive, bleVars, acc_data,
                   accel_value, history, resumeErr, discInCycle>>

\* lines 403-404: pm_device_action_run(cons, PM_DEVICE_ACTION_SUSPEND); the
\* transition to suspended is taken to succeed (on a suspended device the
\* call changes nothing)
MainSuspend ==
    /\ mainPc = "suspend"
    /\ busActive' = FALSE
    /\ mainPc' = "sleep"
    /\ UNCHANGED <<cfgStep, workerPc, bma400_ready, bleVars, dataVars,
                   history,
                   cfgHist, resumeErr, discInCycle>>

(***************************************************************************)
(* bma_int_handler, lines 174-179                                          *)
(***************************************************************************)
\* a handler that also powers the bus up for the worker
bma_int_handler_resumesBus ==
    /\ mainPc \in {"config", "suspend", "sleep"}
    /\ nInts < MaxInts
    /\ bma400_ready' = k_sem_give(bma400_ready, SemLimit)
    /\ busActive' = TRUE
    /\ nInts' = nInts + 1
    /\ intsSinceDrain' = intsSinceDrain + 1
    /\ nBursts' = IF intsSinceDrain = 0 THEN nBursts + 1 ELSE nBursts
    /\ UNCHANGED <<mainPc, cfgStep, workerPc, bleVars, dataVars,
                   workerHist, cfgHist, resumeErr, discInCycle>>

\* a handler whose callback is armed from boot, before main() has checked
\* anything
bma_int_handler_armedAtBoot ==
    /\ nInts < MaxInts
    /\ bma400_ready' = k_sem_give(bma400_ready, SemLimit)
    /\ nInts' = nInts + 1
    /\ intsSinceDrain' = intsSinceDrain + 1
    /\ nBursts' = IF intsSinceDrain = 0 THEN nBursts + 1 ELSE nBursts
    /\ UNCHANGED <<mainPc, cfgStep, workerPc, busActive, bleVars, dataVars,
                   workerHist, cfgHist, resumeErr, discInCycle>>

\* a handler that signals only a worker that is already waiting
bma_int_handler_signalsOnlyWaiter ==
    /\ mainPc \in {"config", "suspend", "sleep"}
    /\ nInts < MaxInts
    /\ bma400_ready' = (IF workerPc = "idle"
                        THEN k_sem_give(bma400_ready, SemLimit)
                        ELSE bma400_ready)
    /\ nInts' = nInts + 1
    /\ intsSinceDrain' = intsSinceDrain + 1
    /\ nBursts' = IF intsSinceDrain = 0 THEN nBursts + 1 ELSE nBursts
    /\ UNCHANGED <<mainPc, cfgStep, workerPc, busActive, bleVars, dataVars,
                   workerHist, cfgHist, resumeErr, discInCycle>>

bma_int_handler ==
    /\ mainPc \in {"config", "suspend", "sleep"}
    /\ nInts < MaxInts
    /\ bma400_ready' = k_sem_give(bma400_ready, SemLimit)
    /\ nInts' = nInts + 1
    /\ intsSinceDrain' = intsSinceDrain + 1
    /\ nBursts' = IF intsSinceDrain = 0 THEN nBursts + 1 ELSE nBursts
    /\ UNCHANGED <<mainPc, cfgStep, workerPc, busActive, bleVars, dataVars,
                   workerHist,
                   cfgHist, resumeErr, discInCycle>>

(***************************************************************************)
(* BLE callbacks, lines 55-72                                              *)
(***************************************************************************)
\* connected() without the test of err: the peer is stored in every case
connected_storesOnError ==
    /\ mainPc \in {"irq_setup", "config", "suspend", "sleep"}
    /\ \E conn \in Peers \ links, err \in {0, 2} :
          /\ links' = (IF err # 0 THEN links ELSE links \cup {conn})
          /\ refs' = [refs EXCEPT ![conn] = @ + 1]
          /\ current_conn' = conn
          /\ discInCycle' = FALSE
    /\ UNCHANGED <<mainPc, cfgStep, workerPc, bma400_ready, busActive,
                   dataVars, intHist, workerHist, cfgHist, resumeErr>>

\* connected(conn, err), lines 55-63, called by the stack (enabled by
\* bt_enable in main()) for a device of P that has no connection yet
connectedFrom(P) ==
    /\ mainPc \in {"irq_setup", "config", "suspend", "sleep"}
    /\ \E conn \in P \ links, err \in {0, 2} :
          IF err # 0
          THEN UNCHANGED <<bleVars, discInCycle>>
          ELSE /\ refs[conn] < MaxRefs
               /\ links' = links \cup {conn}
               /\ refs' = [refs EXCEPT ![conn] = @ + 1]
               /\ current_conn' = conn
               /\ discInCycle' = FALSE
    /\ UNCHANGED <<mainPc, cfgStep, workerPc, bma400_ready, busActive,
                   dataVars, intHist, workerHist,
                   cfgHist, resumeErr>>

\* connected(conn, err)
connected == connectedFrom(Peers)

\* disconnected() that drops its reference but keeps the pointer
disconnected_keepsConn ==
    /\ \E conn \in links :
          /\ links' = links \ {conn}
          /\ IF current_conn # NULL
             THEN /\ refs' = [refs EXCEPT ![current_conn] = @ - 1]
                  /\ current_conn' = current_conn
             ELSE UNCHANGED <<refs, current_conn>>
    /\ discInCycle' = (workerPc \in {"resume", "read", "send_check"})
    /\ UNCHANGED <<mainPc, cfgStep, workerPc, bma400_ready, busActive,
                   dataVars, history, cfgHist, resumeErr>>

\* disconnected(conn, reason)
disconnected ==
    /\ \E conn \in links :
          /\ links' = links \ {conn}
          /\ IF current_conn # NULL
             THEN /\ refs' = [refs EXCEPT ![current_conn] = @ - 1]
                  /\ current_conn' = NULL
             ELSE UNCHANGED <<refs, current_conn>>
    /\ discInCycle' = (workerPc \in {"resume", "read", "send_check"})
    /\ UNCHANGED <<mainPc, cfgStep, workerPc, bma400_ready, busActive,
                   dataVars, history,
                   cfgHist, resumeErr>>

(***************************************************************************)
(* thread_read_bma400, lines 182-210                                       *)
(***************************************************************************)
\* line 196: k_sem_take(&bma400_ready, K_FOREVER) returns
WorkerTake ==
    /\ workerPc = "idle"
    /\ bma400_ready > 0
    /\ bma400_ready' = bma400_ready - 1
    /\ workerPc' = "resume"
    /\ nTake' = nTake + 1
    /\ intsSinceDrain' = 0
    /\ prevXferErr' = xferErr
    /\ xferErr' = 0
    /\ readRet' = 0
    /\ readData' = Unfilled
    /\ connAtCheck' = "unchecked"
    /\ steps' = <<>>
    /\ resumeErr' = 0
    /\ discInCycle' = FALSE
    /\ UNCHANGED <<mainPc, cfgStep, busActive, bleVars, dataVars, nInts,
                   nBursts, nAcquire, nRelease, notified,
                   cfgHist>>

\* lines 199-200: pm_device_action_run(cons, PM_DEVICE_ACTION_RESUME); the
\* transition can fail and leave the bus suspended; the result is not
\* looked at
WorkerResume ==
    /\ workerPc = "resume"
    /\ \E ok \in BOOLEAN :
          /\ busActive' = (busActive \/ ok)
          /\ resumeErr' = (IF busActive \/ ok THEN 0 ELSE EIO)
    /\ workerPc' = "read"
    /\ nAcquire' = nAcquire + 1
    /\ steps' = Append(steps, "acquire")
    /\ UNCHANGED <<mainPc, cfgStep, bma400_ready, bleVars, dataVars, intHist,
                   nTake, nRelease, xferErr, readRet, readData,
                   prevXferErr, connAtCheck, notified,
                   cfgHist, discInCycle>>

\* the read step leaving the loop body as soon as the transfer failed
WorkerRead_abort ==
    /\ workerPc = "read"
    /\ \E e \in {0, EIO}, v \in SensorValues :
          LET err == IF busActive THEN e ELSE EIO
              rd  == read_reg_spi(err, [seq |-> nTake, v |-> v], rx_buffer,
                                  Unfilled)
              got == bma400_get_accel_data(rd.ret, rd.data, acc_data)
          IN  /\ rx_buffer' = rd.rx_buffer
              /\ acc_data' = got.acc
              /\ xferErr' = err
              /\ readRet' = rd.ret
              /\ readData' = rd.data
              /\ workerPc' = IF err # 0 THEN "idle" ELSE "send_check"
    /\ steps' = Append(steps, "read")
    /\ UNCHANGED <<mainPc, cfgStep, bma400_ready, busActive, bleVars,
                   accel_value, intHist, nTake, nAcquire, nRelease,
                   prevXferErr, connAtCheck, notified,
                   cfgHist, resumeErr, discInCycle>>

\* line 203: bma400_get_accel_data(BMA400_DATA_ONLY, &acc_data, &bma_sensor),
\* which reads the data registers through read_reg_spi; its result is not
\* looked at.  A transfer on a suspended bus fails.
WorkerRead ==
    /\ workerPc = "read"
    /\ \E e \in {0, EIO}, v \in SensorValues :
          LET err == IF busActive THEN e ELSE EIO
              rd  == read_reg_spi(err, [seq |-> nTake, v |-> v], rx_buffer,
                                  Unfilled)
              got == bma400_get_accel_data(rd.ret, rd.data, acc_data)
          IN  /\ rx_buffer' = rd.rx_buffer
              /\ acc_data' = got.acc
              /\ xferErr' = err
              /\ readRet' = rd.ret
              /\ readData' = rd.data
    /\ workerPc' = "send_check"
    /\ steps' = Append(steps, "read")
    /\ UNCHANGED <<mainPc, cfgStep, bma400_ready, busActive, bleVars,
                   accel_value, intHist, nTake, nAcquire, nRelease,
                   prevXferErr, connAtCheck, notified,
                   cfgHist, resumeErr, discInCycle>>

\* lines 206 and 104: send_accel_notification is entered and tests
\* current_conn
WorkerSendCheck ==
    /\ workerPc = "send_check"
    /\ connAtCheck' = current_conn
    /\ workerPc' = send_check_next(current_conn)
    /\ steps' = Append(steps, "check")
    /\ UNCHANGED <<mainPc, cfgStep, bma400_ready, busActive, bleVars,
                   dataVars, intHist, nTake, nAcquire, nRelease,
                   xferErr, readRet, readData, prevXferErr, notified,
                   cfgHist, resumeErr, discInCycle>>

\* one call bt_gatt_notify(conn, &accel_svc.attrs[1], accel_value, 6) as
\* the stack sees it: the cycle and sample it belongs to, the peer reference
\* passed, the value the test at line 104 saw, whether the application
\* holds a reference on that peer at the moment of the call, the payload
\* and the result
NotifyCall(conn, payload, err) ==
    [cycle |-> nTake, seq |-> acc_data.seq, v |-> acc_data.v, conn |-> conn,
     checked |-> connAtCheck,
     held |-> (conn \in DOMAIN refs /\ refs[conn] > 0),
     payload |-> payload, err |-> err]

\* a send that calls bt_gatt_notify again for as long as it fails
WorkerSendNotify_retries ==
    /\ workerPc = "send_notify"
    /\ accel_value' = serialize(acc_data.v[1], acc_data.v[2], acc_data.v[3])
    /\ \E err \in {0, EIO}, conn \in {connAtCheck, current_conn} :
          /\ notified' = Append(notified,
                                NotifyCall(conn, accel_value', err))
          /\ workerPc' = IF err # 0 THEN "send_notify" ELSE "suspend"
    /\ steps' = Append(steps, "notify")
    /\ UNCHANGED <<mainPc, cfgStep, bma400_ready, busActive, bleVars,
                   rx_buffer, acc_data, intHist, nTake, nAcquire, nRelease,
                   xferErr, readRet, readData, prevXferErr,
                   connAtCheck,
                   cfgHist, resumeErr, discInCycle>>

\* lines 106-117: fill accel_value and call bt_gatt_notify; a failure is
\* printed and dropped.  current_conn is a plain global written by the BLE
\* callbacks in another thread and read at line 104 and again at line 113
\* with nothing in between that orders the accesses: the call gets the value
\* the test saw (kept in a register) or the value the variable has now
WorkerSendNotify ==
    /\ workerPc = "send_notify"
    /\ accel_value' = serialize(acc_data.v[1], acc_data.v[2], acc_data.v[3])
    /\ \E err \in {0, EIO}, conn \in {connAtCheck, current_conn} :
          notified' = Append(notified, NotifyCall(conn, accel_value', err))
    /\ workerPc' = "suspend"
    /\ steps' = Append(steps, "notify")
    /\ UNCHANGED <<mainPc, cfgStep, bma400_ready, busActive, bleVars,
                   rx_buffer, acc_data, intHist, nTake, nAcquire, nRelease,
                   xferErr, readRet, readData, prevXferErr,
                   connAtCheck,
                   cfgHist, resumeErr, discInCycle>>

\* the end of the loop body without the SUSPEND call
WorkerSuspend_noRelease ==
    /\ workerPc = "suspend"
    /\ workerPc' = "idle"
    /\ UNCHANGED <<mainPc, cfgStep, bma400_ready, busActive, bleVars,
                   dataVars, history,
                   cfgHist, resumeErr, discInCycle>>

\* lines 207-209: pm_device_action_run(cons, PM_DEVICE_ACTION_SUSPEND) and
\* back to the top of the loop
WorkerSuspend ==
    /\ workerPc = "suspend"
    /\ busActive' = FALSE
    /\ workerPc' = "idle"
    /\ nRelease' = nRelease + 1
    /\ steps' = Append(steps, "release")
    /\ UNCHANGED <<mainPc, cfgStep, bma400_ready, bleVars, dataVars, intHist,
                   nTake, nAcquire, xferErr, readRet, readData,
                   prevXferErr, connAtCheck, notified,
                   cfgHist, resumeErr, discInCycle>>

Next ==
    \/ MainChecks
    \/ MainIrqSetup
    \/ MainConfigStep
    \/ MainSuspend
    \/ bma_int_handler
    \/ connected
    \/ disconnected
    \/ WorkerTake
    \/ WorkerResume
    \/ WorkerRead
    \/ WorkerSendCheck
    \/ WorkerSendNotify
    \/ WorkerSuspend

Spec == Init /\ [][Next]_vars

\* thread_read_bma400 as one process: K_THREAD_DEFINE at line 213 starts it
\* at boot and the scheduler runs it whenever it is ready (k_sem_take has
\* returned or can return) and nothing of higher priority runs forever:
\* main() sleeps, the callbacks and the handler return
Worker ==
    \/ WorkerTake
    \/ WorkerResume
    \/ WorkerRead
    \/ WorkerSendCheck
    \/ WorkerSendNotify
    \/ WorkerSuspend

\* steady state: main() has completed start-up without a failed transfer,
\* suspended the bus (line 404) and sleeps (line 409); no interrupt has
\* fired yet and no peer is connected
LiveInit ==
    /\ mainPc = "sleep"
    /\ cfgStep = Len(ConfigSeq)
    /\ workerPc = "idle"
    /\ bma400_ready = SemInitial
    /\ busActive = FALSE
    /\ current_conn = NULL
    /\ refs = [p \in Peers |-> 0]
    /\ links = {}
    /\ rx_buffer = NoSample
    /\ acc_data = NoSample
    /\ accel_value = <<0, 0, 0, 0, 0, 0>>
    /\ nInts = 0
    /\ intsSinceDrain = 0
    /\ nBursts = 0
    /\ nTake = 0
    /\ nAcquire = 0
    /\ nRelease = 0
    /\ xferErr = 0
    /\ readRet = 0
    /\ readData = Unfilled
    /\ prevXferErr = 0
    /\ connAtCheck = "unchecked"
    /\ steps = <<>>
    /\ notified = <<>>
    /\ lastWrite = StartupWrite
    /\ cfgFailed = FALSE
    /\ resumeErr = 0
    /\ discInCycle = FALSE

\* what runs in steady state: the handler, the worker, the BLE callbacks
LiveNext ==
    \/ bma_int_handler
    \/ connected
    \/ disconnected
    \/ Worker

SpecLive == LiveInit /\ [][LiveNext]_vars /\ WF_vars(Worker)

TypeOK ==
    /\ mainPc \in {"checks", "irq_setup", "config", "suspend", "sleep", "returned"}
    /\ workerPc \in {"idle", "resume", "read", "send_check", "send_notify", "suspend"}
    /\ bma400_ready \in 0..SemLimit
    /\ busActive \in BOOLEAN
    /\ current_conn \in DOMAIN refs \cup {NULL}

(***************************************************************************)
(* The payload encoding on its own: the worker stands at the call of       *)
(* send_accel_notification in its first cycle, with any sample of the      *)
(* signed 16-bit range in acc_data and any ConnectionState                 *)
(***************************************************************************)
SerInit ==
    /\ mainPc = "sleep"
    /\ cfgStep = Len(ConfigSeq)
    /\ workerPc = "send_check"
    /\ bma400_ready = 0
    /\ busActive = TRUE
    /\ \E c \in Peers \cup {NULL} :
          /\ current_conn = c
          /\ links = (IF c = NULL THEN {} ELSE {c})
          /\ refs = [p \in Peers |-> IF p = c THEN 1 ELSE 0]
    /\ \E x \in Int16Values, y \in Int16Values, z \in Int16Values :
          /\ acc_data = [seq |-> 1, v |-> <<x, y, z>>]
          /\ rx_buffer = [seq |-> 1, v |-> <<x, y, z>>]
          /\ readData = [seq |-> 1, v |-> <<x, y, z>>]
    /\ accel_value = <<0, 0, 0, 0, 0, 0>>
    /\ nInts = 1
    /\ intsSinceDrain = 0
    /\ nBursts = 1
    /\ nTake = 1
    /\ nAcquire = 1
    /\ nRelease = 0
    /\ xferErr = 0
    /\ readRet = 0
    /\ prevXferErr = 0
    /\ connAtCheck = "unchecked"
    /\ steps = <<"acquire", "read">>
    /\ notified = <<>>
    /\ lastWrite = StartupWrite
    /\ cfgFailed = FALSE
    /\ resumeErr = 0
    /\ discInCycle = FALSE

SerNext ==
    \/ WorkerSendCheck
    \/ WorkerSendNotify

SpecSer == SerInit /\ [][SerNext]_vars

(***************************************************************************)
(* Two centrals: the steady state of LiveInit with a stack that admits a   *)
(* connection from a second device while the first one is up               *)
(***************************************************************************)
BleInit ==
    /\ mainPc = "sleep"
    /\ cfgStep = Len(ConfigSeq)
    /\ workerPc = "idle"
    /\ bma400_ready = SemInitial
    /\ busActive = FALSE
    /\ current_conn = NULL
    /\ refs = [p \in BlePeers |-> 0]
    /\ links = {}
    /\ rx_buffer = NoSample
    /\ acc_data = NoSample
    /\ accel_value = <<0, 0, 0, 0, 0, 0>>
    /\ nInts = 0
    /\ intsSinceDrain = 0
    /\ nBursts = 0
    /\ nTake = 0
    /\ nAcquire = 0
    /\ nRelease = 0
    /\ xferErr = 0
    /\ readRet = 0
    /\ readData = Unfilled
    /\ prevXferErr = 0
    /\ connAtCheck = "unchecked"
    /\ steps = <<>>
    /\ notified = <<>>
    /\ lastWrite = StartupWrite
    /\ cfgFailed = FALSE
    /\ resumeErr = 0
    /\ discInCycle = FALSE

BleNext ==
    \/ connectedFrom(BlePeers)
    \/ disconnected
    \/ bma_int_handler
    \/ Worker

SpecBle == BleInit /\ [][BleNext]_vars

(***************************************************************************)
(* write_reg_spi on its own: main() is in the start-up sequence with the   *)
(* bus active, and the function is called with any register, data and len  *)
(***************************************************************************)
WrInit ==
    /\ mainPc = "config"
    /\ cfgStep = 3
    /\ workerPc = "idle"
    /\ bma400_ready = SemInitial
    /\ busActive = TRUE
    /\ current_conn = NULL
    /\ refs = [p \in Peers |-> 0]
    /\ links = {}
    /\ rx_buffer = NoSample
    /\ acc_data = NoSample
    /\ accel_value = <<0, 0, 0, 0, 0, 0>>
    /\ nInts = 0
    /\ intsSinceDrain = 0
    /\ nBursts = 0
    /\ nTake = 0
    /\ nAcquire = 0
    /\ nRelease = 0
    /\ xferErr = 0
    /\ readRet = 0
    /\ readData = Unfilled
    /\ prevXferErr = 0
    /\ connAtCheck = "unchecked"
    /\ steps = <<>>
    /\ notified = <<>>
    /\ lastWrite = NoWrite
    /\ cfgFailed = FALSE
    /\ resumeErr = 0
    /\ discInCycle = FALSE

\* lines 253-276: one call write_reg_spi(reg_address, data, len, intf_ptr);
\* data points to max(len, 1) bytes
write_reg_spi_call ==
    /\ mainPc = "config"
    /\ \E reg_address \in WriteRegs, len \in 0..MaxWriteLen, err \in {0, EIO} :
          \E data \in [1..(IF len = 0 THEN 1 ELSE len) -> WriteBytes],
             beyond \in [1..(IF len <= 1 THEN 0 ELSE len - 1) -> StackBytes] :
             lastWrite' = WriteCall(reg_address, data, len, beyond, err)
    /\ UNCHANGED <<mainPc, cfgStep, workerPc, bma400_ready, busActive,
                   bleVars, dataVars, history, cfgFailed, resumeErr,
                   discInCycle>>

WrNext == write_reg_spi_call

SpecWrite == WrInit /\ [][WrNext]_vars

(***************************************************************************)
(* Properties                                                              *)
(***************************************************************************)
\* the worker has completed its RESUME call and not yet its SUSPEND call
BetweenAcquireAndRelease ==
    workerPc \in {"read", "send_check", "send_notify", "suspend"}
\* the worker is in send_accel_notification
Delivering == workerPc \in {"send_check", "send_notify"}
StepsHas(s) == \E i \in 1..Len(steps) : steps[i] = s

C2_BusReleasedBeforeDelivering == ~(busActive /\ Delivering)

\* C3: a cycle whose sample read failed makes no delivery attempt: it
\* neither checks ConnectionState nor calls notify.
C3_NoDeliveryAfterFailedRead ==
    xferErr # 0 => (~Delivering /\ ~StepsHas("check") /\ ~StepsHas("notify"))

\* C4: every burst of N >= 1 interrupts between two consecutive returns of
\* k_sem_take yields exactly one cycle, and the worker runs at most one
\* cycle (one acquire, one release, at most one notify) per drained signal.
C4_OneCyclePerBurst ==
    /\ nTake = nBursts - (IF intsSinceDrain > 0 THEN 1 ELSE 0)
    /\ nAcquire <= nTake
    /\ nRelease <= nTake
    /\ Len(notified) <= nTake

\* two interrupts fired before the worker drained, and exactly one cycle ran
C4_Witness ==
    /\ nInts = 2
    /\ nBursts = 1
    /\ intsSinceDrain = 0
    /\ nTake = 1
    /\ nRelease = 1
    /\ workerPc = "idle"

\* C5: when the worker's check sees ConnectionState Disconnected, no notify
\* call is made for that cycle's sample.
C5_NoNotifyWhenDisconnected ==
    connAtCheck = NULL =>
        /\ workerPc # "send_notify"
        /\ ~StepsHas("notify")
        /\ \A i \in 1..Len(notified) : notified[i].cycle # nTake

\* a successful read was checked while Disconnected, a peer connected right
\* after the check, and the cycle is past the send without a notify call
C5_Witness ==
    /\ connAtCheck = NULL
    /\ current_conn # NULL
    /\ xferErr = 0
    /\ acc_data.seq = nTake
    /\ workerPc = "idle"
    /\ nRelease = nTake

IsNormalCycle(s) ==
    /\ Len(s) >= 3
    /\ s[1] = "acquire"
    /\ s[2] = "read"
    /\ s[Len(s)] = "release"

\* C6: a cycle whose transceive failed still releases the bus and returns
\* to Idle with the bus off, and the cycle run for the next signal is a
\* complete one (acquire, read, release).
C6_FailedTransceiveRecovers ==
    /\ (workerPc = "idle" /\ xferErr # 0) =>
           (~busActive /\ nAcquire = nRelease /\ IsNormalCycle(steps))
    /\ (workerPc = "idle" /\ nTake >= 2 /\ prevXferErr # 0) =>
           (~busActive /\ nAcquire = nRelease /\ IsNormalCycle(steps))

\* the cycle after a failed one has completed with a successful read
C6_Witness ==
    /\ workerPc = "idle"
    /\ nTake = 2
    /\ nRelease = 2
    /\ prevXferErr # 0
    /\ xferErr = 0
    /\ acc_data.seq = 2
    /\ ~busActive

\* C7: every notification carries a sample fetched by a successful read of
\* the same cycle, and no sample is carried by two notifications.
C7_NoSampleResent ==
    \A i \in 1..Len(notified) :
        /\ notified[i].seq = notified[i].cycle
        /\ \A j \in 1..Len(notified) :
               notified[j].seq = notified[i].seq => j = i

\* an axis value as the unsigned 16-bit number of its two's complement
TwosComplement16(x) == IF x < 0 THEN x + 65536 ELSE x

PayloadLayout(n) ==
    /\ Len(n.payload) = PayloadLen
    /\ \A k \in 1..PayloadLen : n.payload[k] \in 0..255
    /\ n.payload[1] + 256 * n.payload[2] = TwosComplement16(n.v[1])
    /\ n.payload[3] + 256 * n.payload[4] = TwosComplement16(n.v[2])
    /\ n.payload[5] + 256 * n.payload[6] = TwosComplement16(n.v[3])

\* C8 as stated: the payload of every notification is 6 bytes, x, y, z as
\* little-endian two's complement, and x=100, y=-50, z=32760 is sent as
\* 64 00 CE FF 78 7F.
C8_PayloadAsStated ==
    \A i \in 1..Len(notified) :
        /\ PayloadLayout(notified[i])
        /\ notified[i].v = <<100, -50, 32760>> =>
               notified[i].payload = <<100, 0, 206, 255, 120, 127>>

\* C8 (amended): the payload of every notification is 6 bytes, x, y, z as
\* little-endian two's complement, and x=100, y=-50, z=32760 is sent as
\* 64 00 CE FF F8 7F.
C8_PayloadLayout ==
    \A i \in 1..Len(notified) :
        /\ PayloadLayout(notified[i])
        /\ notified[i].v = <<100, -50, 32760>> =>
               notified[i].payload = <<100, 0, 206, 255, 248, 127>>

\* the sample of the scenario was notified to a connected peer
C8_Witness ==
    \E i \in 1..Len(notified) :
        /\ notified[i].v = <<100, -50, 32760>>
        /\ notified[i].conn \in Peers
        /\ notified[i].payload = accel_value

\* the peer's decoding: three little-endian signed 16-bit values
ToInt16(u) == IF u >= 32768 THEN u - 65536 ELSE u
deserialize(b) ==
    <<ToInt16(b[1] + 256 * b[2]), ToInt16(b[3] + 256 * b[4]),
      ToInt16(b[5] + 256 * b[6])>>

\* C9: decoding the payload of a notification as three little-endian signed
\* 16-bit values gives back the sample (x, y, z) it was made from.
C9_RoundTrip ==
    \A i \in 1..Len(notified) :
        deserialize(notified[i].payload) = notified[i].v

\* a sample with the extreme and negative axis values went through
C9_Witness ==
    \E i \in 1..Len(notified) :
        /\ notified[i].v = <<-32768, -1, 32767>>
        /\ deserialize(notified[i].payload) = <<-32768, -1, 32767>>

\* C10: read_reg_spi returns an error whenever the transceive failed, and
\* then leaves its caller's buffer unfilled.
C10_ReadFailsOnTransportError ==
    (StepsHas("read") /\ xferErr # 0) =>
        (readRet # 0 /\ readData = Unfilled)

\* C11: write_reg_spi returns the transport error whenever spi_write_dt
\* reported one, and returns 0 only when the bus write succeeded.
C11_WriteFailsOnTransportError ==
    lastWrite.made =>
        /\ lastWrite.err # 0 => lastWrite.ret = lastWrite.err
        /\ lastWrite.ret = 0 => lastWrite.err = 0

\* a register write of the start-up sequence failed on the bus and the
\* error came back from write_reg_spi
C11_Witness ==
    /\ lastWrite.made
    /\ lastWrite.err = EIO
    /\ lastWrite.ret = EIO

C13_TransceiveOnlyWhenAcquired ==
    [][(WorkerRead \/ MainConfigStep) =>
           (busActive /\ resumeErr = 0 /\ nAcquire = nRelease + 1)]_vars

\* C14: no context other than the worker makes a bus power transition or a
\* bus access.
C14_OnlyWorkerTouchesBus == [][~MainConfigStep /\ ~MainSuspend]_vars

\* C15: a cycle whose RESUME transition failed makes no transceive and no
\* delivery attempt.
C15_AcquireFailureAbandonsCycle ==
    resumeErr # 0 =>
        (~StepsHas("read") /\ ~StepsHas("check") /\ ~StepsHas("notify"))

\* C16: once a step of init_read_lp has failed, start-up is aborted: main()
\* never reaches its steady-state sleep and no read cycle is started.
C16_ConfigFailureAbortsStartup ==
    [][cfgFailed => (mainPc' # "sleep" /\ nTake' = nTake)]_vars

\* C17: ConnectionState starts Disconnected; a connection that comes up is
\* stored with one more reference on that peer; a connection that goes down
\* clears the stored peer and drops one reference on it; nothing else (a
\* connect callback reporting an error included) changes it.
C17_ConnectionLifecycle ==
    /\ current_conn = NULL
    /\ [][/\ \A c \in Peers :
               /\ (c \notin links /\ c \in links') =>
                      (current_conn' = c /\ refs'[c] = refs[c] + 1)
               /\ (c \in links /\ c \notin links') =>
                      /\ current_conn' = NULL
                      /\ current_conn # NULL =>
                             refs'[current_conn] = refs[current_conn] - 1
          /\ links' = links => UNCHANGED <<current_conn, refs>>]_vars

\* a peer connected, was notified, and disconnected again: nothing is held
C17_Witness ==
    /\ current_conn = NULL
    /\ links = {}
    /\ \A p \in Peers : refs[p] = 0
    /\ \E i \in 1..Len(notified) : notified[i].conn \in Peers

\* C18: the count of bma400_ready is 0 or 1; only the interrupt handler
\* raises it, only the worker's k_sem_take lowers it, and a post at count 1
\* leaves it at 1.
C18_SingleSlotSignal ==
    [][/\ bma400_ready \in {0, 1}
       /\ bma400_ready' \in {0, 1}
       /\ bma400_ready' > bma400_ready => nInts' = nInts + 1
       /\ bma400_ready' < bma400_ready => nTake' = nTake + 1
       /\ (nInts' = nInts + 1 /\ bma400_ready = 1) => bma400_ready' = 1]_vars

\* two interrupts were posted before the worker took any: one is pending
C18_Witness ==
    /\ nInts = 2
    /\ nTake = 0
    /\ bma400_ready = 1

\* C19: a run of the interrupt handler posts bma400_ready and changes
\* nothing else: not the bus power state, the buffers, the sample, the
\* payload, ConnectionState, nor the position of main() or of the worker.
C19_HandlerOnlyPosts ==
    [][nInts' = nInts + 1 =>
           /\ bma400_ready' = 1
           /\ UNCHANGED <<busActive, rx_buffer, acc_data, accel_value,
                          current_conn, refs, links, mainPc, cfgStep,
                          workerPc, xferErr, notified>>]_vars

\* the handler ran while the worker was in a cycle with the bus powered
C19_Witness ==
    /\ intsSinceDrain >= 1
    /\ workerPc = "read"
    /\ busActive
    /\ bma400_ready = 1

\* C20: the worker acquires, reads or notifies only in a cycle started by
\* taking a signal, and the cycles started never exceed the interrupts
\* fired.
C20_NoCycleWithoutSignal ==
    /\ nTake <= nInts
    /\ nAcquire <= nTake
    /\ workerPc # "idle" => nTake >= 1
    /\ acc_data.seq <= nInts
    /\ \A i \in 1..Len(notified) : notified[i].cycle \in 1..nInts

\* one interrupt, one cycle, one notification
C20_Witness ==
    /\ nInts = 1
    /\ nTake = 1
    /\ Len(notified) = 1
    /\ workerPc = "idle"

\* C21: with the worker scheduled fairly, every interrupt is eventually
\* followed by a completed sample read of a cycle whose k_sem_take returned
\* after that interrupt (so the read started after it), and the worker is
\* Idle again and again.
C21_LostWakeupSafe ==
    /\ \A k \in 1..MaxInts :
           (nInts >= k) ~> (StepsHas("read") /\ nInts - intsSinceDrain >= k)
    /\ []<>(workerPc = "idle")

\* the second interrupt fired after the first signal was taken, and a second
\* cycle has read a sample of its own and ended
C21_Witness ==
    /\ nInts = 2
    /\ nBursts = 2
    /\ nTake = 2
    /\ intsSinceDrain = 0
    /\ StepsHas("read")
    /\ workerPc = "idle"

\* the notify calls the worker made in the cycle it is in
NotifyCallsInCycle == Len(SelectSeq(steps, LAMBDA c : c = "notify"))

\* C22: the worker makes at most one notify call per cycle, and every notify
\* call that follows another one (a failed one included) belongs to a later
\* cycle, made after that cycle's k_sem_take, RESUME, read and check.
C22_FailedNotifyNotRetried ==
    /\ NotifyCallsInCycle <= 1
    /\ \A i, j \in 1..Len(notified) :
           i < j => notified[i].cycle < notified[j].cycle
    /\ StepsHas("notify") =>
           /\ Len(steps) >= 4
           /\ <<steps[1], steps[2], steps[3], steps[4]>> =
                  <<"acquire", "read", "check", "notify">>
           /\ notified[Len(notified)].cycle = nTake

\* a notify call failed in the first cycle and the next call was made by
\* the second cycle
C22_Witness ==
    /\ Len(notified) = 2
    /\ notified[1].err # 0
    /\ notified[1].cycle = 1
    /\ notified[2].cycle = 2
    /\ workerPc = "idle"

\* C23: every call of write_reg_spi, whatever its len argument, puts exactly
\* the two bytes [reg_address, data[0]] on the bus and nothing after them.
C23_WriteFrameTwoBytes ==
    lastWrite.made =>
        lastWrite.frame = <<lastWrite.reg, lastWrite.data[1]>>

\* C24: every notify call gets the peer reference the worker's check saw,
\* and that reference is not NULL and still held by the application when
\* the call is made.
C24_NotifyWithHeldPeer ==
    \A i \in 1..Len(notified) :
        /\ notified[i].conn # NULL
        /\ notified[i].conn = notified[i].checked
        /\ notified[i].held

RECURSIVE RefsHeld(_)
\* references taken minus references released, over the peers of S
RefsHeld(S) ==
    IF S = {} THEN 0
    ELSE LET p == CHOOSE q \in S : TRUE
         IN  refs[p] + RefsHeld(S \ {p})

\* C25: after any sequence of connect and disconnect callbacks the
\* application holds one peer reference when ConnectionState is Connected
\* and none when it is Disconnected, and the stored peer is one whose
\* connection is up.
C25_PeerRefsBalanced ==
    /\ RefsHeld(DOMAIN refs) = (IF current_conn = NULL THEN 0 ELSE 1)
    /\ current_conn # NULL => current_conn \in links

\* C26: once main() has returned from a failed readiness check (lines
\* 362-384) it stays returned, no interrupt is ever delivered, the
\* semaphore is never posted, the worker stays blocked in k_sem_take and
\* there is no acquire, no read and no notification.
C26_FailedCheckNoCycle ==
    /\ [](mainPc = "returned" =>
             /\ nInts = 0
             /\ bma400_ready = 0
             /\ workerPc = "idle"
             /\ nTake = 0
             /\ nAcquire = 0
             /\ steps = <<>>
             /\ acc_data = NoSample
             /\ notified = <<>>)
    /\ [][mainPc = "returned" => mainPc' = "returned"]_vars

\* a readiness check failed and main() has returned; the worker waits
C26_Witness ==
    /\ mainPc = "returned"
    /\ workerPc = "idle"
    /\ bma400_ready = 0

====
